---------------------------- MODULE Spec2Model ----------------------------
(***************************************************************************)
(* A model of ssg/src/main.rs: the static site generator that mirrors      *)
(* ./src into ./generated, inlining fragment files named by                *)
(* "<!-- template: NAME -->" directives, and its --watch loop.             *)
(*                                                                         *)
(* Paths are sequences of components relative to the source root (the     *)
(* output tree mirrors them).  File contents are sequences of atoms: a     *)
(* run of ordinary text, "\n", "\r", or one directive text naming NAME.    *)
(***************************************************************************)
EXTENDS Integers, Sequences, FiniteSets, TLC

VARIABLES
    src,              \* source tree: file path -> content, or Absent
    faults,           \* file-system faults in force (permissions)
    out,              \* output tree: file path -> content, or Absent
    outDirs,          \* directories present under the output root
    pc,               \* "idle" | "walk" | "fatal": position of the main thread
    stack,            \* process_directory activations: <<[dir, rest]>>, top last
    errors,           \* generate_site's `errors`
    processed,        \* generate_site's `processed_files`
    emitted,          \* paths logged "Processed: .." (line 106) in this run
    report,           \* what the last finished run printed at lines 63-72
    runs,             \* number of generation runs started
    hist,             \* one record per finished run (observation only)
    now,              \* the clock (ms)
    last_generation,  \* watch_and_generate's `last_generation`
    chan,             \* the mpsc channel: messages sent and not yet received
    fired,            \* number of messages sent into the channel so far
    handled,          \* one record per message the loop received (observation only)
    closed,           \* the sending half of the channel is gone
    watchErrors       \* number of "Watch error" lines printed (line 54)

fsVars    == <<src, faults>>
outVars   == <<out, outDirs>>
genVars   == <<pc, stack, errors, processed, emitted, report, runs, hist>>
watchVars == <<now, last_generation, chan, fired, handled, closed, watchErrors>>
vars      == <<src, faults, out, outDirs, pc, stack, errors, processed, emitted,
               report, runs, hist, now, last_generation, chan, fired, handled,
               closed, watchErrors>>

---------------------------------------------------------------------------
(* Bounds of the model. *)

MaxLines  == 2     \* lines of the page a.html
MaxRuns   == 2     \* runs of the program on one source tree
MaxFaults == 1     \* simultaneous file-system faults
MaxEvents == 2     \* messages sent into the channel per behaviour
MaxTicks  == 6     \* clock ticks per behaviour
MaxRecvErrors == 1 \* failures of rx.recv() per behaviour

(* Program constant: Duration::from_millis(100). *)
DebounceMs == 100

(* The clock advances in steps of half the debounce window, so that an     *)
(* elapsed time below, equal to and above the window all occur.            *)
TickMs == DebounceMs \div 2

---------------------------------------------------------------------------
(* Contents. *)

Txt      == [k |-> "txt", n |-> <<>>]
NL       == [k |-> "nl",  n |-> <<>>]
CR       == [k |-> "cr",  n |-> <<>>]
Tpl(nm)  == [k |-> "tpl", n |-> nm]
Absent   == <<[k |-> "absent", n |-> <<>>]>>

(* Paths of the source tree, relative to ./src. *)
PA == <<"a.html">>
PB == <<"b.html">>
PS == <<"s.css">>
PD == <<"d">>
PC == <<"d", "c.html">>
Root == <<>>

FilePaths == {PA, PB, PS, PC}
DirPaths  == {PD}

(* Fragment names written in directives. *)
NB  == <<"b.html">>
NS  == <<"s.css">>
NM  == <<"m.html">>
NA  == <<"a.html">>
NUp == <<"..", "b.html">>
ND  == <<"d">>

Parent(p) == SubSeq(p, 1, Len(p) - 1)
Last(p)   == p[Len(p)]

(* path.extension() == Some("html") *)
IsHtml(p) == Last(p) \in {"a.html", "b.html", "c.html", "m.html"}

(* What the operating system does with ".." when it resolves a path; a     *)
(* PathBuf keeps the component, so equality and hashing do not.            *)
RECURSIVE NormAcc(_, _)
NormAcc(p, acc) ==
    IF p = <<>> THEN acc
    ELSE IF Head(p) = ".." /\ acc # <<>> /\ Last(acc) # ".."
         THEN NormAcc(Tail(p), Parent(acc))
         ELSE NormAcc(Tail(p), Append(acc, Head(p)))

Norm(p) == NormAcc(p, <<>>)

IsFile(p) == Norm(p) \in FilePaths /\ src[Norm(p)] # Absent
IsDir(p)  == Norm(p) \in DirPaths \cup {Root}

(* Path::exists *)
Exists(p) == IsFile(p) \/ IsDir(p)

(* A file that cannot be opened for reading. *)
Unreadable(p) == [op |-> "read", p |-> Norm(p)] \in faults

(* fs::read_dir: the entries of a directory, in no particular order. *)
ReadDir(d) ==
    {p \in FilePaths : Parent(p) = d /\ src[p] # Absent}
        \cup {p \in DirPaths : Parent(p) = d}

---------------------------------------------------------------------------
(* BufRead::lines: split at "\n", drop the "\r" before it; a last line     *)
(* without "\n" is yielded as it is, and nothing follows a final "\n".     *)

StripCR(l) == IF l # <<>> /\ Last(l) = CR THEN Parent(l) ELSE l

RECURSIVE SplitLines(_, _, _)
SplitLines(c, cur, acc) ==
    IF c = <<>> THEN (IF cur = <<>> THEN acc ELSE Append(acc, cur))
    ELSE IF Head(c) = NL
         THEN SplitLines(Tail(c), <<>>, Append(acc, StripCR(cur)))
         ELSE SplitLines(Tail(c), Append(cur, Head(c)), acc)

Lines(c) == SplitLines(c, <<>>, <<>>)

(* template_regex.captures(&line): the first directive text of the line.   *)
DirectiveAt(line) ==
    IF \E i \in 1..Len(line) : line[i].k = "tpl"
    THEN CHOOSE i \in 1..Len(line) :
            /\ line[i].k = "tpl"
            /\ \A j \in 1..(i - 1) : line[j].k # "tpl"
    ELSE 0

(* write! in the place of writeln!: the line without its newline. *)
WriteNoNewline(o, x) == o \o x

(* writeln!(output_file, "{}", line), lines 143 and 146 *)
WriteLn(o, x) == o \o x \o <<NL>>

(* The fragment written with its own directives taken out, as a resolver   *)
(* that descends into the fragment would do.                               *)
WriteFragmentExpanded(o, template_content) ==
    o \o SelectSeq(template_content, LAMBDA a : a.k # "tpl") \o <<NL>>

(* write! in the place of writeln!: no newline after the fragment. *)
WriteFragmentBare(o, template_content) == o \o template_content

(* writeln!(output_file, "{}", template_content), line 132 *)
WriteFragment(o, template_content) == o \o template_content \o <<NL>>

(* A copy made with the line writer: a newline follows the bytes. *)
CopyWithNewline(c) == c \o <<NL>>

(* fs::copy: the bytes of the source, as they are. *)
CopyBytes(c) == c

(* The enumerate() index used as it is, without the + 1 of line 139. *)
MissingDiagZeroBased(file, lineNo, nm) ==
    [kind |-> "missing", file |-> file, line |-> lineNo - 1, name |-> nm]

(* The diagnostics pushed to `errors`. *)
MissingDiag(file, lineNo, nm) ==
    [kind |-> "missing", file |-> file, line |-> lineNo, name |-> nm]
ProcessDiag(file) ==
    [kind |-> "process", file |-> file, line |-> 0, name |-> <<>>]
CopyDiag(file) ==
    [kind |-> "copy", file |-> file, line |-> 0, name |-> <<>>]

(* The loop of process_html_file over the lines, from line i on.  st is    *)
(* [ok, created, out, errs, proc]: whether Ok(()) is returned, whether the *)
(* output file was created, what was written to it, the diagnostics pushed *)
(* and the paths inserted into processed_files.                            *)
RECURSIVE ResolveLines(_, _, _, _)
ResolveLines(input, lines, i, st) ==
    IF i > Len(lines) THEN st
    ELSE
      LET line == lines[i]
          at   == DirectiveAt(line)
      IN  IF at # 0
          THEN LET template_name == line[at].n
                   template_path == Parent(input) \o template_name
               IN  IF Exists(template_path)
                   THEN IF IsDir(template_path) \/ Unreadable(template_path)
                        THEN [st EXCEPT !.ok = FALSE]
                        ELSE ResolveLines(input, lines, i + 1,
                               [st EXCEPT
                                  !.out  = WriteFragment(@, src[Norm(template_path)]),
                                  !.proc = @ \cup {template_path}])
                   ELSE ResolveLines(input, lines, i + 1,
                          [st EXCEPT
                             !.errs = Append(@, MissingDiag(input, i, template_name)),
                             !.out  = WriteLn(@, line)])
          ELSE ResolveLines(input, lines, i + 1,
                 [st EXCEPT !.out = WriteLn(@, line)])

process_html_file(input) ==
    IF Unreadable(input)
    THEN [ok |-> FALSE, created |-> FALSE, out |-> <<>>, errs |-> <<>>, proc |-> {}]
    ELSE ResolveLines(input, Lines(src[input]), 1,
           [ok |-> TRUE, created |-> TRUE, out |-> <<>>, errs |-> <<>>, proc |-> {}])

---------------------------------------------------------------------------
(* The source trees and faults the model draws from. *)

TxtLine     == <<Txt>>
DirLine(nm) == <<Tpl(nm)>>

(* A line with text before and after the directive text. *)
MixedLine(nm) == <<Txt, Tpl(nm), Txt>>

(* The lines a.html is made of. *)
PageLines == {TxtLine, DirLine(NB), DirLine(NS), DirLine(NM), DirLine(ND)}

RECURSIVE Render(_)
Render(ls) == IF ls = <<>> THEN <<>> ELSE Head(ls) \o <<NL>> \o Render(Tail(ls))

PageContents == {Render(ls) : ls \in UNION {[1..k -> PageLines] : k \in 1..MaxLines}}
FragContents == {<<Txt>>, <<Txt, NL>>, Render(<<DirLine(NA)>>),
                 Render(<<DirLine(NB), DirLine(NS)>>), Absent}
CssContents  == {<<Txt, CR, NL, Txt>>, Absent}
SubContents  == {Render(<<DirLine(NUp)>>), <<Txt, CR, NL>>,
                 <<Tpl(NM), CR, NL, Txt>>, Render(<<MixedLine(NUp)>>), Absent}

Tree(a, b, s, c) == (PA :> a) @@ (PB :> b) @@ (PS :> s) @@ (PC :> c)

(* The pages of one line. *)
ShortPages == {Render(<<l>>) : l \in PageLines}

(* Every page with every fragment and nothing under d, and every file      *)
(* under d with every fragment and a page of one line.                     *)
Trees ==
    {Tree(a, b, s, Absent) : a \in PageContents, b \in FragContents,
                             s \in CssContents}
    \cup {Tree(a, b, s, c) : a \in ShortPages, b \in FragContents,
                             s \in CssContents, c \in SubContents}

(* The source trees of one-shot mode: every tree with a style sheet. *)
SrcTrees == {t \in Trees : t[PS] # Absent}

FaultSet == {[op |-> "read", p |-> PA], [op |-> "read", p |-> PB],
             [op |-> "read", p |-> PS],
             [op |-> "readdir", p |-> PD], [op |-> "mkdir", p |-> PD],
             [op |-> "readdir", p |-> Root]}

FaultChoices == {F \in SUBSET FaultSet : Cardinality(F) <= MaxFaults}

EmptyOut == [p \in FilePaths |-> Absent]

(* An output tree left by earlier use: every file is there, with content   *)
(* that no source file has.                                                *)
StaleOut == [p \in FilePaths |-> <<Txt, NL, Txt>>]

---------------------------------------------------------------------------
(* generate_site and process_directory. *)

(* The set kept from the run before, as a set owned by the loop would be. *)
StaleProcessed == processed

(* let mut errors = Vec::new(); let mut processed_files = HashSet::new(); *)
FreshErrors    == <<>>
FreshProcessed == {}

(* The Err arm left empty: the failure is swallowed. *)
DropFileError(errs, d) == errs

(* errors.push(..) of lines 95 and 99: a failure of one file becomes a     *)
(* diagnostic.                                                             *)
PushFileError(errs, d) == Append(errs, d)

(* !processed_files.contains(&path): PathBuf equality, component by        *)
(* component, with no resolution of "..".                                  *)
NotYetProcessed(path) == path \notin processed

Top == stack[Len(stack)]

(* A create_dir_all that succeeds whatever the permissions are. *)
MkdirNeverFails(d) == FALSE

(* fs::create_dir_all(&dest_path) returns Err, line 89 *)
MkdirFails(d) == [op |-> "mkdir", p |-> d] \in faults

(* fs::read_dir(src) returns Err, line 83 *)
ReadDirFails(d) == [op |-> "readdir", p |-> d] \in faults

(* The report printed although the walk returned Err. *)
ReportAnyway == [printed |-> TRUE, errors |-> errors]

(* The `?` of line 61 returns before lines 63-72: nothing is printed. *)
NoReport == [printed |-> FALSE, errors |-> <<>>]

(* Lines 58-61 up to the first read_dir: the per-run state is created and  *)
(* the root directory enumerated, or the read_dir fails.                   *)
BeginRun ==
    /\ errors' = FreshErrors
    /\ processed' = FreshProcessed
    /\ emitted' = {}
    /\ IF ReadDirFails(Root)
       THEN /\ stack' = <<>>
            /\ pc' = "fatal"
       ELSE /\ stack' = <<[dir |-> Root, rest |-> ReadDir(Root)]>>
            /\ pc' = "walk"
    /\ runs' = runs + 1
    /\ hist' = Append(hist, [src |-> src, faults |-> faults, out0 |-> out,
                             done |-> FALSE, fatal |-> FALSE, out |-> out,
                             endedAt |-> 0,
                             report |-> <<>>, processed |-> {}, emitted |-> {}])
    /\ UNCHANGED report

(* A walker that removes the output of a file it skips. *)
SkipRemoving(path) ==
    /\ out' = [out EXCEPT ![path] = Absent]
    /\ UNCHANGED <<errors, processed, emitted>>

(* Line 92, the path is in processed_files: nothing is done for the entry. *)
Skip(path) == UNCHANGED <<out, errors, processed, emitted>>

(* Lines 92-107: one file entry. *)
WalkFile(path) ==
    IF NotYetProcessed(path)
    THEN /\ IF IsHtml(path)
            THEN LET r == process_html_file(path)
                 IN  /\ out' = IF r.created THEN [out EXCEPT ![path] = r.out] ELSE out
                     /\ errors' = IF r.ok THEN errors \o r.errs
                                  ELSE PushFileError(errors \o r.errs, ProcessDiag(path))
                     /\ processed' = processed \cup r.proc \cup {path}
            ELSE /\ IF Unreadable(path)
                    THEN /\ errors' = PushFileError(errors, CopyDiag(path))
                         /\ out' = out
                    ELSE /\ errors' = errors
                         /\ out' = [out EXCEPT ![path] = CopyBytes(src[path])]
                 /\ processed' = processed \cup {path}
         /\ emitted' = emitted \cup {path}
    ELSE Skip(path)

(* One iteration of the for loop of process_directory (lines 83-109), on   *)
(* any entry not yet enumerated.                                           *)
WalkEntry ==
    /\ pc = "walk"
    /\ \E e \in Top.rest :
         IF e \in DirPaths
         THEN IF MkdirFails(e)
              THEN /\ pc' = "fatal"
                   /\ stack' = <<>>
                   /\ UNCHANGED <<out, outDirs, errors, processed, emitted>>
              ELSE /\ outDirs' = outDirs \cup {e}
                   /\ IF ReadDirFails(e)
                      THEN /\ pc' = "fatal"
                           /\ stack' = <<>>
                      ELSE /\ pc' = pc
                           /\ stack' = Append([stack EXCEPT ![Len(stack)].rest = @ \ {e}],
                                              [dir |-> e, rest |-> ReadDir(e)])
                   /\ UNCHANGED <<out, errors, processed, emitted>>
         ELSE /\ WalkFile(e)
              /\ stack' = [stack EXCEPT ![Len(stack)].rest = @ \ {e}]
              /\ UNCHANGED <<pc, outDirs>>
    /\ UNCHANGED <<fsVars, report, runs, hist, watchVars>>

(* Line 110 of a nested activation: Ok(()) back to line 90. *)
ReturnDir ==
    /\ pc = "walk"
    /\ Len(stack) > 1
    /\ Top.rest = {}
    /\ stack' = SubSeq(stack, 1, Len(stack) - 1)
    /\ UNCHANGED <<fsVars, outVars, pc, errors, processed, emitted, report, runs,
                   hist, watchVars>>

(* The record of the run that ends now. *)
Closed(isFatal) ==
    [hist EXCEPT ![Len(hist)] =
        [@ EXCEPT !.done = TRUE, !.fatal = isFatal, !.out = out,
                  !.endedAt = now,
                  !.report = IF isFatal THEN <<>> ELSE errors,
                  !.processed = processed, !.emitted = emitted]]

(* Lines 61-74: the walk returned Ok(()), the report is printed. *)
EndRun ==
    /\ pc = "walk"
    /\ Len(stack) = 1
    /\ Top.rest = {}
    /\ report' = [printed |-> TRUE, errors |-> errors]
    /\ hist' = Closed(FALSE)
    /\ pc' = "idle"
    /\ stack' = <<>>

(* Line 61: the walk returned Err, which `?` propagates: nothing printed.  *)
AbortRun ==
    /\ pc = "fatal"
    /\ report' = NoReport
    /\ hist' = Closed(TRUE)
    /\ pc' = "idle"
    /\ stack' = <<>>

---------------------------------------------------------------------------
(* One-shot mode: the program is run once on a source tree; the output     *)
(* tree is empty or left by earlier use.                                   *)

(* main without --watch, lines 11-13 and 22, into generate_site. *)
Launch ==
    /\ pc = "idle"
    /\ outDirs' = outDirs \cup {Root}
    /\ BeginRun
    /\ UNCHANGED <<fsVars, out, watchVars>>

Main ==
    /\ runs = 0
    /\ Launch

(* Lines 22-25: generate_site returned Ok. *)
Exit ==
    /\ EndRun
    /\ UNCHANGED <<fsVars, outVars, errors, processed, emitted, runs, watchVars>>

(* Line 22: generate_site returned Err, main returns it. *)
ExitErr ==
    /\ AbortRun
    /\ UNCHANGED <<fsVars, outVars, errors, processed, emitted, runs, watchVars>>

Init ==
    /\ src \in SrcTrees
    /\ faults \in FaultChoices
    /\ out \in {EmptyOut, StaleOut}
    /\ outDirs = IF out = EmptyOut THEN {} ELSE {Root, PD}
    /\ pc = "idle"
    /\ stack = <<>>
    /\ errors = <<>>
    /\ processed = {}
    /\ emitted = {}
    /\ report = [printed |-> FALSE, errors |-> <<>>]
    /\ runs = 0
    /\ hist = <<>>
    /\ now = 0
    /\ last_generation = 0
    /\ chan = <<>>
    /\ fired = 0
    /\ handled = <<>>
    /\ closed = FALSE
    /\ watchErrors = 0

Next ==
    \/ Main
    \/ WalkEntry
    \/ ReturnDir
    \/ Exit
    \/ ExitErr

Spec == Init /\ [][Next]_vars

---------------------------------------------------------------------------
(* The program run again and again on one source tree, with no fault; the  *)
(* user may remove the output tree, or delete a source file, between two   *)
(* runs.                                                                   *)

(* The source trees of the repeated runs: nothing under d. *)
RerunTrees == {t \in SrcTrees : t[PC] = Absent}

(* The program is started once more. *)
Rerun ==
    /\ 0 < runs /\ runs < MaxRuns
    /\ Launch

(* The user removes ./generated. *)
CleanOutput ==
    /\ pc = "idle"
    /\ 0 < runs /\ runs < MaxRuns
    /\ outDirs # {}
    /\ out' = EmptyOut
    /\ outDirs' = {}
    /\ UNCHANGED <<fsVars, genVars, watchVars>>

(* The user deletes a file of the source tree between two runs. *)
RemoveSource ==
    /\ pc = "idle"
    /\ 0 < runs /\ runs < MaxRuns
    /\ \E f \in {PB, PS} :
          /\ src[f] # Absent
          /\ src' = [src EXCEPT ![f] = Absent]
    /\ UNCHANGED <<faults, outVars, genVars, watchVars>>

RerunInit ==
    /\ Init
    /\ src \in RerunTrees
    /\ faults = {}
    /\ out = EmptyOut

RerunNext ==
    \/ Main
    \/ Rerun
    \/ CleanOutput
    \/ RemoveSource
    \/ WalkEntry
    \/ ReturnDir
    \/ Exit

RerunSpec == RerunInit /\ [][RerunNext]_vars

---------------------------------------------------------------------------
(* Watch mode: watch_and_generate.  The notification subsystem sends each  *)
(* change event into the channel when it is fired; the time an event then  *)
(* waits in the channel stands for every delay between its being fired and *)
(* the loop's test of line 47.  The source tree is edited only while no    *)
(* generation is running.                                                  *)

(* The pages a.html is rewritten to while the watcher runs. *)
WatchPages == {Render(<<DirLine(NB), DirLine(NM)>>), Render(<<TxtLine>>)}

(* The source trees the watcher starts on. *)
WatchTrees == {Tree(a, <<Txt>>, Absent, Absent) : a \in WatchPages}

WatchFaults == {{}, {[op |-> "readdir", p |-> PD]}}

Elapsed == now - last_generation

(* No test at all: every message starts a generation. *)
ShouldGenerateAlways(elapsed) == TRUE

(* elapsed >= debounce_duration in the place of >. *)
ShouldGenerateInclusive(elapsed) == elapsed >= DebounceMs

(* last_generation.elapsed() > debounce_duration, line 47 *)
ShouldGenerate(elapsed) == elapsed > DebounceMs

(* Line 51 left out: the reference time stays what it was. *)
StaleCompletionTime == last_generation

(* last_generation = Instant::now(), line 51 *)
CompletionTime == now

(* The clock advances. *)
Tick ==
    /\ now < MaxTicks * TickMs
    /\ now' = now + TickMs
    /\ UNCHANGED <<fsVars, outVars, genVars, last_generation, chan, fired, handled,
                   closed, watchErrors>>

(* The messages of the channel: the notification subsystem sends          *)
(* notify::Result<Event>, a change event or an error of its own.           *)
Event(n)      == [id |-> n, at |-> now, kind |-> "change"]
ErrorEvent(n) == [id |-> n, at |-> now, kind |-> "error"]

(* A change of the watched tree that leaves every content as it is (a      *)
(* touch, a rewrite with the same bytes): an event is fired.               *)
Touch ==
    /\ ~closed
    /\ fired < MaxEvents
    /\ fired' = fired + 1
    /\ chan' = Append(chan, Event(fired + 1))
    /\ UNCHANGED <<fsVars, outVars, genVars, now, last_generation, handled,
                   closed, watchErrors>>

(* The notification subsystem reports an error of its own: it sends        *)
(* Err(notify::Error) into the channel, as a message.                      *)
NotifyError ==
    /\ ~closed
    /\ fired < MaxEvents
    /\ fired' = fired + 1
    /\ chan' = Append(chan, ErrorEvent(fired + 1))
    /\ UNCHANGED <<fsVars, outVars, genVars, now, last_generation, handled,
                   closed, watchErrors>>

(* The sending half of the channel is dropped: nothing is sent any more.   *)
Disconnect ==
    /\ ~closed
    /\ closed' = TRUE
    /\ UNCHANGED <<fsVars, outVars, genVars, now, last_generation, chan, fired,
                   handled, watchErrors>>

(* The user rewrites a.html: an event is fired. *)
EditSource ==
    /\ pc = "idle"
    /\ ~closed
    /\ fired < MaxEvents
    /\ \E c \in WatchPages :
          /\ c # src[PA]
          /\ src' = [src EXCEPT ![PA] = c]
    /\ fired' = fired + 1
    /\ chan' = Append(chan, Event(fired + 1))
    /\ UNCHANGED <<faults, outVars, genVars, now, last_generation, handled,
                   closed, watchErrors>>

(* The loop and a generation each on a thread of its own: a message is     *)
(* taken whatever the main thread is doing.                                *)
AtRecvOrBusy == TRUE

(* Line 44: the one thread of the loop is blocked in rx.recv().            *)
AtRecv == pc = "idle"

(* The generations that were entered and have not returned. *)
Active == {k \in 1..Len(hist) : ~hist[k].done}

(* Lines 44-47, the arm Ok(event): rx.recv() returns the next message,     *)
(* whichever its kind; it is printed, the elapsed time is tested and       *)
(* either generate_site is entered or the message is dropped.              *)
Recv ==
    /\ AtRecv
    /\ chan # <<>>
    /\ chan' = Tail(chan)
    /\ handled' = Append(handled, [id |-> Head(chan).id, at |-> Head(chan).at,
                                   kind |-> Head(chan).kind,
                                   recv |-> now, elapsed |-> Elapsed,
                                   started |-> ShouldGenerate(Elapsed),
                                   active |-> Cardinality(Active)])
    /\ IF ShouldGenerate(Elapsed)
       THEN BeginRun
       ELSE UNCHANGED genVars
    /\ UNCHANGED <<fsVars, outVars, now, last_generation, fired, closed, watchErrors>>

(* Lines 44 and 54, the arm Err(e): rx.recv() fails, which it does when    *)
(* the channel is empty and its sending half is gone; the error is printed *)
(* and the loop goes round.                                                *)
RecvFail ==
    /\ AtRecv
    /\ chan = <<>>
    /\ closed
    /\ watchErrors < MaxRecvErrors
    /\ watchErrors' = watchErrors + 1
    /\ UNCHANGED <<fsVars, outVars, genVars, now, last_generation, chan, fired,
                   handled, closed>>

(* Lines 48-51, generate_site returned Ok(()). *)
Generated ==
    /\ EndRun
    /\ last_generation' = CompletionTime
    /\ UNCHANGED <<fsVars, outVars, errors, processed, emitted, runs,
                   now, chan, fired, handled, closed, watchErrors>>

(* Lines 48-51, generate_site returned Err: it is printed (line 49). *)
GenerateFailed ==
    /\ AbortRun
    /\ last_generation' = CompletionTime
    /\ UNCHANGED <<fsVars, outVars, errors, processed, emitted, runs,
                   now, chan, fired, handled, closed, watchErrors>>

(* A reference time set so far back that the first event always passes    *)
(* the test.                                                               *)
LongBeforeStart == now - DebounceMs - TickMs

(* let mut last_generation = std::time::Instant::now(), line 40 *)
StartReference == now

(* main with --watch, lines 11-20 and 28-41: the output root exists, the   *)
(* watcher is set up and the reference time taken.                         *)
WatchInit ==
    /\ src \in WatchTrees
    /\ faults \in WatchFaults
    /\ out = EmptyOut
    /\ outDirs = {Root}
    /\ pc = "idle"
    /\ stack = <<>>
    /\ errors = <<>>
    /\ processed = {}
    /\ emitted = {}
    /\ report = [printed |-> FALSE, errors |-> <<>>]
    /\ runs = 0
    /\ hist = <<>>
    /\ now = 0
    /\ last_generation = StartReference
    /\ chan = <<>>
    /\ fired = 0
    /\ handled = <<>>
    /\ closed = FALSE
    /\ watchErrors = 0

(* The watch loop fed with change events alone. *)
WatchNext ==
    \/ Tick
    \/ Touch
    \/ EditSource
    \/ Recv
    \/ WalkEntry
    \/ ReturnDir
    \/ Generated
    \/ GenerateFailed

WatchSpec == WatchInit /\ [][WatchNext]_vars

(* The watch loop fed with change events and with errors: error messages   *)
(* of the notification subsystem, and the loss of the sending half.        *)
NotifyNext ==
    \/ Tick
    \/ Touch
    \/ EditSource
    \/ NotifyError
    \/ Disconnect
    \/ Recv
    \/ RecvFail
    \/ WalkEntry
    \/ ReturnDir
    \/ Generated
    \/ GenerateFailed

NotifySpec == WatchInit /\ [][NotifyNext]_vars

---------------------------------------------------------------------------
(* What the properties below speak of. *)

SourceFiles == {p \in FilePaths : src[p] # Absent}

(* The lines of f that hold a directive, the name each holds and the       *)
(* candidate path it is resolved to.                                       *)
DirectiveLines(f) ==
    {i \in 1..Len(Lines(src[f])) : DirectiveAt(Lines(src[f])[i]) # 0}
NameAt(f, i) ==
    LET l == Lines(src[f])[i] IN l[DirectiveAt(l)].n
Candidate(f, i) == Parent(f) \o NameAt(f, i)

Resolvable(f, i) == i \in DirectiveLines(f) /\ Exists(Candidate(f, i))
Missing(f, i)    == i \in DirectiveLines(f) /\ ~Exists(Candidate(f, i))

(* f is referenced by a directive, of some markup file of the source tree, *)
(* whose candidate path exists.                                            *)
Referenced(f) ==
    \E g \in SourceFiles :
        /\ IsHtml(g)
        /\ \E i \in DirectiveLines(g) :
              Exists(Candidate(g, i)) /\ Norm(Candidate(g, i)) = f

(* A per-file failure: the file cannot be opened, or a fragment it names   *)
(* exists and cannot be read as text.                                      *)
BadFragment(f, i) ==
    /\ Resolvable(f, i)
    /\ IsDir(Candidate(f, i)) \/ Unreadable(Candidate(f, i))
Fails(f) ==
    \/ Unreadable(f)
    \/ IsHtml(f) /\ \E i \in 1..Len(Lines(src[f])) : BadFragment(f, i)

(* The output a markup file is to have: line by line, the fragment (and a  *)
(* newline) for a directive whose candidate exists, the line (and a        *)
(* newline) otherwise.                                                     *)
ExpectedBlock(f, i) ==
    IF Resolvable(f, i)
    THEN src[Norm(Candidate(f, i))] \o <<NL>>
    ELSE Lines(src[f])[i] \o <<NL>>

RECURSIVE ExpectedFrom(_, _)
ExpectedFrom(f, i) ==
    IF i > Len(Lines(src[f])) THEN <<>>
    ELSE ExpectedBlock(f, i) \o ExpectedFrom(f, i + 1)

ExpectedOut(f) == ExpectedFrom(f, 1)

(* The missing-fragment diagnostics f is to produce, in line order. *)
RECURSIVE ExpectedMissingFrom(_, _)
ExpectedMissingFrom(f, i) ==
    IF i > Len(Lines(src[f])) THEN <<>>
    ELSE (IF Missing(f, i)
          THEN <<[kind |-> "missing", file |-> f, line |-> i, name |-> NameAt(f, i)]>>
          ELSE <<>>) \o ExpectedMissingFrom(f, i + 1)

DiagsOf(f, kinds) ==
    SelectSeq(errors, LAMBDA d : d.file = f /\ d.kind \in kinds)

LastRun == hist[Len(hist)]

(* A run has ended without a fatal error, and the trees are as it left     *)
(* them.                                                                   *)
AfterRun ==
    /\ pc = "idle"
    /\ hist # <<>>
    /\ LastRun.done /\ ~LastRun.fatal
    /\ out = LastRun.out
    /\ src = LastRun.src
    /\ faults = LastRun.faults

---------------------------------------------------------------------------
(* C1: within a run, a file referenced by a directive whose candidate path *)
(* exists is never independently emitted (logged as processed at its own   *)
(* path), whatever the enumeration order.  Stated for runs with no         *)
(* file-system fault.  The code violates it: the walker may reach the      *)
(* fragment before the file that references it.                            *)
C1_ReferencedNeverEmitted ==
    faults = {} => \A f \in emitted : ~Referenced(f)

(* C2: two runs on the same source tree that start from the same output    *)
(* tree end with the same output tree, whatever order each walked in.      *)
(* The code violates it.                                                   *)
C2_OrderIndependent ==
    \A i, j \in 1..Len(hist) :
        (/\ hist[i].done /\ ~hist[i].fatal
         /\ hist[j].done /\ ~hist[j].fatal
         /\ hist[i].src = hist[j].src
         /\ hist[i].faults = hist[j].faults
         /\ hist[i].out0 = hist[j].out0)
        => hist[i].out = hist[j].out

(* C3: a second run in succession, on the unchanged source tree and on the *)
(* output tree the first run left, leaves the output tree as the first run *)
(* left it.  The code violates it.                                         *)
C3_Idempotent ==
    \A i \in 1..(Len(hist) - 1) :
        (/\ hist[i].done /\ ~hist[i].fatal
         /\ hist[i + 1].done /\ ~hist[i + 1].fatal
         /\ hist[i + 1].src = hist[i].src
         /\ hist[i + 1].faults = hist[i].faults
         /\ hist[i + 1].out0 = hist[i].out)
        => hist[i + 1].out = hist[i].out

---------------------------------------------------------------------------
(* A run has just been entered: the root is enumerated and no entry of it  *)
(* has been handled.                                                       *)
RunEntered ==
    /\ pc = "walk"
    /\ stack = <<[dir |-> Root, rest |-> ReadDir(Root)]>>
    /\ emitted = {}

PrevRun == hist[Len(hist) - 1]

(* The files run h consumed as fragments and did not emit. *)
ConsumedIn(h) == (h.processed \ h.emitted) \cap FilePaths

(* A diagnostic that the source tree, as it is now, accounts for. *)
Justified(d) ==
    CASE d.kind = "missing" ->
            /\ d.file \in SourceFiles
            /\ d.line \in 1..Len(Lines(src[d.file]))
            /\ Missing(d.file, d.line)
            /\ NameAt(d.file, d.line) = d.name
      [] d.kind \in {"process", "copy"} ->
            d.file \in SourceFiles /\ Fails(d.file)

(* C4: the processed-file set and the diagnostic list are empty when a run *)
(* of the watch loop is entered; a file consumed as a fragment in the run  *)
(* before and referenced by no directive now is emitted in this run, and   *)
(* the report of this run holds only diagnostics of this run, each once.   *)
C4_PerRunState ==
    /\ RunEntered => (processed = {} /\ errors = <<>>)
    /\ (AfterRun /\ Len(hist) >= 2) =>
          /\ \A f \in SourceFiles :
                (f \in ConsumedIn(PrevRun) /\ ~Referenced(f)) => f \in emitted
          /\ report.errors = errors
          /\ \A i \in 1..Len(errors) :
                /\ Justified(errors[i])
                /\ \A j \in 1..Len(errors) : errors[j] = errors[i] => j = i

(* The page consumed b.html and missed m.html in one run; rewritten, it    *)
(* names neither, and the next run emits b.html and reports nothing.       *)
C4_Witness ==
    /\ AfterRun
    /\ Len(hist) >= 2
    /\ PB \in ConsumedIn(PrevRun)
    /\ PrevRun.report # <<>>
    /\ ~Referenced(PB)
    /\ PB \in emitted
    /\ out[PB] = WriteLn(<<>>, src[PB])
    /\ errors = <<>>

---------------------------------------------------------------------------
(* The run started by the i-th event received, when it started one: runs   *)
(* are entered in the order of the events that start them.                 *)
RunOf(i) == hist[Cardinality({m \in 1..i : handled[m].started})]

(* The i-th event received started a generation that ran to completion.    *)
Regenerated(i) ==
    /\ handled[i].started
    /\ RunOf(i).done /\ ~RunOf(i).fatal

(* C5, as claimed: of two change events fired less than the debounce       *)
(* window apart, at most one triggers a completed regeneration, whatever   *)
(* the delay between an event being fired and its being received.          *)
C5_OnePerFiredPair ==
    \A i, j \in 1..Len(handled) :
        (i < j /\ handled[j].at - handled[i].at < DebounceMs)
            => ~(Regenerated(i) /\ Regenerated(j))

(* C5, amended: of two change events received by the loop less than the    *)
(* debounce window apart, at most one starts a generation, whatever the    *)
(* duration of the generation.                                             *)
C5_OnePerReceivedPair ==
    \A i, j \in 1..Len(handled) :
        (i < j /\ handled[j].recv - handled[i].recv < DebounceMs)
            => ~(handled[i].started /\ handled[j].started)

(* An event started a generation, time passed while it ran, and the next   *)
(* event, received less than the window after the first, was dropped.      *)
C5_Witness ==
    /\ Len(handled) >= 2
    /\ Len(hist) >= 1
    /\ \E i \in 1..(Len(handled) - 1) :
          /\ handled[i].started
          /\ ~handled[i + 1].started
          /\ handled[i + 1].recv - handled[i].recv < DebounceMs
          /\ handled[i + 1].recv > handled[i].recv
          /\ handled[i + 1].elapsed < handled[i + 1].recv - handled[i].recv

---------------------------------------------------------------------------
(* C6, as claimed: an event received when the time elapsed since the       *)
(* reference time is greater than or equal to the window starts a          *)
(* generation, an event received earlier starts none.                      *)
C6_GenerateAtOrAfterWindow ==
    \A i \in 1..Len(handled) :
        handled[i].started <=> handled[i].elapsed >= DebounceMs

(* The number of events received so far that started a generation; the     *)
(* run started by the n-th of them is hist[n], and the reference time is 0 *)
(* until a run has ended.                                                  *)
StartedCount == Cardinality({i \in 1..Len(handled) : handled[i].started})

(* C6, amended: an event received when the elapsed time is strictly        *)
(* greater than the window starts one generation, which runs to completion *)
(* before the loop waits again and whose end is the new reference time; an *)
(* event received when the elapsed time is less than or equal to the       *)
(* window starts none.                                                     *)
C6_GenerateAfterWindow ==
    /\ Len(hist) = StartedCount
    /\ runs = StartedCount
    /\ \A i \in 1..Len(handled) :
          LET n == Cardinality({m \in 1..(i - 1) : handled[m].started})
          IN  /\ handled[i].started <=> handled[i].elapsed > DebounceMs
              /\ handled[i].elapsed =
                    handled[i].recv - (IF n = 0 THEN 0 ELSE hist[n].endedAt)
    /\ pc = "idle" =>
          /\ \A k \in 1..Len(hist) : hist[k].done
          /\ hist # <<>> => last_generation = LastRun.endedAt
    /\ pc # "idle" =>
          /\ handled # <<>> /\ handled[Len(handled)].started
          /\ ~LastRun.done

(* An event was received exactly one window after the reference time and   *)
(* dropped; a later one started a generation that has completed.           *)
C6_Witness ==
    /\ pc = "idle"
    /\ \E i, j \in 1..Len(handled) :
          /\ handled[i].elapsed = DebounceMs /\ ~handled[i].started
          /\ handled[j].elapsed > DebounceMs /\ handled[j].started
    /\ hist # <<>> /\ LastRun.done
    /\ last_generation = LastRun.endedAt
    /\ last_generation > 0

---------------------------------------------------------------------------
---------------------------------------------------------------------------
(* A markup file that was resolved in this run without a per-file failure. *)
Resolved(f) == f \in emitted /\ IsHtml(f) /\ ~Fails(f)

(* The file is one line, a directive whose candidate exists. *)
OneDirectivePage(f) ==
    /\ Len(Lines(src[f])) = 1
    /\ Resolvable(f, 1)
    /\ Lines(src[f])[1] = <<Tpl(NameAt(f, 1))>>

(* C8, as claimed: a page that is one directive line whose candidate       *)
(* exists is output as exactly the fragment's content, nothing added.      *)
C8_FragmentVerbatim ==
    AfterRun =>
        \A f \in SourceFiles :
            (Resolved(f) /\ OneDirectivePage(f))
                => out[f] = src[Norm(Candidate(f, 1))]

(* C8, amended: in place of a directive line whose candidate exists the    *)
(* resolver writes the fragment's content followed by one newline, and     *)
(* nothing of the directive line: every resolved file is, block by block,  *)
(* its lines with each such directive replaced so.                         *)
C8_FragmentThenNewline ==
    AfterRun =>
        \A f \in SourceFiles :
            Resolved(f) =>
                /\ out[f] = ExpectedOut(f)
                /\ OneDirectivePage(f)
                       => out[f] = src[Norm(Candidate(f, 1))] \o <<NL>>

(* A one-directive page was resolved against a fragment that ends with a   *)
(* newline of its own.                                                     *)
C8_Witness ==
    /\ AfterRun
    /\ Resolved(PA)
    /\ OneDirectivePage(PA)
    /\ src[PB] = <<Txt, NL>>
    /\ out[PA] = <<Txt, NL, NL>>

---------------------------------------------------------------------------
(* C9: every directive whose candidate does not exist yields exactly one   *)
(* diagnostic, naming the file, the 1-indexed line and the fragment name;  *)
(* the line is written as it is, and the lines after it are processed too: *)
(* a file whose directives are all missing keeps its lines, and a file of  *)
(* newline-terminated missing directives is output as it is.               *)
C9_MissingFragment ==
    AfterRun =>
        \A f \in SourceFiles :
            Resolved(f) =>
                /\ DiagsOf(f, {"missing"}) = ExpectedMissingFrom(f, 1)
                /\ (\A i \in DirectiveLines(f) : Missing(f, i))
                       => Lines(out[f]) = Lines(src[f])
                /\ (/\ \A i \in 1..Len(Lines(src[f])) : Missing(f, i)
                    /\ src[f] = Render(Lines(src[f])))
                       => out[f] = src[f]

(* A missing fragment on the second line of a page, after a first line     *)
(* that was written.                                                       *)
C9_Witness ==
    /\ AfterRun
    /\ Resolved(PA)
    /\ Missing(PA, 2)
    /\ \E k \in 1..Len(errors) : errors[k] = MissingDiag(PA, 2, NM)
    /\ Lines(out[PA])[Len(Lines(out[PA]))] = <<Tpl(NM)>>

---------------------------------------------------------------------------
(* C10: a per-file failure is recorded as one diagnostic and does not stop *)
(* the run: every file of the source tree is handled (emitted, unless it   *)
(* was consumed as a fragment), every emitted file that does not fail has  *)
(* its output, and a run with a failure reports diagnostics.               *)
C10_FailureDoesNotStop ==
    AfterRun =>
        /\ \A f \in SourceFiles :
              \/ f \in emitted
              \/ f \in processed /\ Referenced(f)
        /\ \A f \in emitted :
              /\ Len(DiagsOf(f, {"process", "copy"})) = (IF Fails(f) THEN 1 ELSE 0)
              /\ Len(DiagsOf(f, {"process"})) = (IF Fails(f) /\ IsHtml(f) THEN 1 ELSE 0)
              /\ ~Fails(f) => out[f] = (IF IsHtml(f) THEN ExpectedOut(f) ELSE src[f])
        /\ (\E f \in emitted : Fails(f))
              => (report.printed /\ report.errors = errors /\ errors # <<>>)

(* A file failed, and a file handled after it was emitted.                 *)
C10_Witness ==
    /\ AfterRun
    /\ \E i, j \in 1..Len(errors) :
          /\ i < j
          /\ errors[i].kind \in {"process", "copy"}
          /\ errors[j].kind = "missing"
          /\ errors[j].file # errors[i].file
          /\ errors[j].file \in emitted
          /\ ~Fails(errors[j].file)
          /\ out[errors[j].file] = ExpectedOut(errors[j].file)

---------------------------------------------------------------------------
(* C11: an error delivered through the channel starts no generation,       *)
(* whether it is an error message sent by the notification subsystem or a  *)
(* failure of the receive: every generation of the watch loop was started  *)
(* by a change event.  The code violates it for the error message, which   *)
(* the arm Ok(event) of line 45 takes like a change event; a failure of    *)
(* the receive itself is printed at line 54 and starts nothing.            *)
C11_ErrorStartsNoGeneration ==
    /\ \A i \in 1..Len(handled) : handled[i].kind = "error" => ~handled[i].started
    /\ runs = Cardinality({i \in 1..Len(handled) :
                              handled[i].kind = "change" /\ handled[i].started})

---------------------------------------------------------------------------
(* C12: at most one generation is active at any time; the loop takes a     *)
(* message from the channel only when no generation is active, so the      *)
(* generation started by one message has run to completion before the      *)
(* next message is taken, while messages are enqueued during a generation. *)
C12_OneGenerationAtATime ==
    /\ Cardinality(Active) <= 1
    /\ Active # {} => Active = {Len(hist)}
    /\ pc = "idle" <=> Active = {}
    /\ \A i \in 1..Len(handled) :
          /\ handled[i].active = 0
          /\ (handled[i].started /\ i < Len(handled)) =>
                /\ RunOf(i).done
                /\ RunOf(i).endedAt <= handled[i + 1].recv

(* A message was sent while the generation started by the message before   *)
(* was running, and was taken after that generation had ended.             *)
C12_Witness ==
    \E i \in 1..(Len(handled) - 1) :
        /\ handled[i].started
        /\ RunOf(i).done
        /\ handled[i].recv < handled[i + 1].at
        /\ handled[i + 1].at < RunOf(i).endedAt
        /\ RunOf(i).endedAt <= handled[i + 1].recv

---------------------------------------------------------------------------
(* The file has no directive line. *)
ZeroDirective(f) == DirectiveLines(f) = {}

(* Every line of the content ends with "\n" alone. *)
LfTerminated(c) == c = Render(Lines(c))

(* C13, as claimed: a markup file with no directive line that is emitted   *)
(* is output byte for byte, whatever its line terminators and whether or   *)
(* not its last line has one.                                              *)
C13_VerbatimAnyTerminator ==
    AfterRun =>
        \A f \in SourceFiles :
            (Resolved(f) /\ ZeroDirective(f)) => out[f] = src[f]

(* C13, amended: a markup file with no directive line that is emitted is   *)
(* output as its lines, each followed by one "\n": "\r\n" becomes "\n" and  *)
(* a last line without a terminator gets one.  The output equals the input *)
(* exactly when every line of the input ends with "\n" alone.              *)
C13_LinesReterminated ==
    AfterRun =>
        \A f \in SourceFiles :
            (Resolved(f) /\ ZeroDirective(f)) =>
                /\ out[f] = Render(Lines(src[f]))
                /\ out[f] = src[f] <=> LfTerminated(src[f])
                /\ src[f] = <<Txt, CR, NL>> => out[f] = <<Txt, NL>>
                /\ src[f] = <<Txt>> => out[f] = <<Txt, NL>>
                /\ src[f] = <<Txt, NL>> => out[f] = <<Txt, NL>>

(* One file with "\r\n" and one without a final terminator were emitted.   *)
C13_Witness ==
    /\ AfterRun
    /\ Resolved(PC) /\ src[PC] = <<Txt, CR, NL>> /\ out[PC] = <<Txt, NL>>
    /\ Resolved(PB) /\ src[PB] = <<Txt>> /\ out[PB] = <<Txt, NL>>

---------------------------------------------------------------------------
(* The messages received so far outside the window: the test of line 47    *)
(* passed, more than the window had elapsed since the reference time.      *)
OutsideWindow == {i \in 1..Len(handled) : handled[i].elapsed > DebounceMs}

LastHandled == handled[Len(handled)]

---------------------------------------------------------------------------
(* The resolver returned Err before it came to line i of g. *)
StoppedBefore(g, i) == \E j \in 1..(i - 1) : BadFragment(g, j)

(* The paths the directives of g itself resolve to, as far as the resolver *)
(* gets; the directives of the fragments are not among them.               *)
FirstLevel(g) ==
    IF ~IsHtml(g) \/ Unreadable(g) THEN {}
    ELSE {Candidate(g, i) : i \in {j \in DirectiveLines(g) :
                                      /\ Resolvable(g, j)
                                      /\ ~BadFragment(g, j)
                                      /\ ~StoppedBefore(g, j)}}

(* The fragment names written in a content. *)
NamesIn(c) == {c[i].n : i \in {j \in 1..Len(c) : c[j].k = "tpl"}}

(* C15: substitution is single-level.  At every moment of a run the        *)
(* processed set is the files emitted and the paths their own directives   *)
(* resolved to, nothing a fragment names; after the run, every resolved    *)
(* file has each fragment written as it is, the fragment's directives      *)
(* still in it, also when a file names itself or two files name each       *)
(* other.                                                                  *)
C15_SingleLevel ==
    /\ processed = emitted \cup UNION {FirstLevel(g) : g \in emitted}
    /\ AfterRun =>
          \A f \in SourceFiles :
              Resolved(f) =>
                  /\ out[f] = ExpectedOut(f)
                  /\ \A i \in DirectiveLines(f) :
                        Resolvable(f, i) =>
                            NamesIn(src[Norm(Candidate(f, i))]) \subseteq NamesIn(out[f])

(* a.html was resolved first and inlined b.html, which names itself and    *)
(* s.css: both directives are in the output of a.html, b.html is in the    *)
(* processed set and s.css, still to be walked, is not.                    *)
C15_Witness ==
    /\ pc = "walk"
    /\ src[PA] = Render(<<DirLine(NB)>>)
    /\ src[PB] = Render(<<DirLine(NB), DirLine(NS)>>)
    /\ emitted = {PA}
    /\ processed = {PA, PB}
    /\ PS \in Top.rest
    /\ out[PA] = <<Tpl(NB), NL, Tpl(NS), NL, NL>>

---------------------------------------------------------------------------
(* The faults that make the walk return Err. *)
FatalFaults == {[op |-> "readdir", p |-> Root],
                [op |-> "mkdir", p |-> PD], [op |-> "readdir", p |-> PD]}

(* A run has ended with a fatal error. *)
AfterFatalRun ==
    /\ pc = "idle"
    /\ hist # <<>>
    /\ LastRun.done /\ LastRun.fatal

(* C16: the step in which a directory cannot be created or enumerated, at  *)
(* the root or below, handles no entry and leaves no activation of the     *)
(* walker; from there the run only returns: no entry is handled, nothing   *)
(* is written, and no report is printed, whatever diagnostics there are.   *)
(* A run ends so exactly when there is such a fault.                       *)
C16_FatalStopsRun ==
    /\ [](pc = "fatal" => stack = <<>>)
    /\ []((pc = "idle" /\ hist # <<>> /\ LastRun.done) =>
              (LastRun.fatal <=> faults \cap FatalFaults # {}))
    /\ [][/\ (pc # "fatal" /\ pc' = "fatal") =>
              /\ stack' = <<>>
              /\ UNCHANGED <<out, errors, processed, emitted>>
          /\ pc = "fatal" =>
              /\ pc' = "idle"
              /\ UNCHANGED <<out, outDirs, errors, processed, emitted>>
              /\ ~report'.printed
              /\ report'.errors = <<>>
              /\ hist'[Len(hist')].fatal
              /\ hist'[Len(hist')].report = <<>>]_vars

(* A run ended with a fatal error below the root after a diagnostic had    *)
(* been recorded: nothing was reported and a file of the root was never    *)
(* reached.                                                                *)
C16_Witness ==
    /\ AfterFatalRun
    /\ ReadDirFails(PD)
    /\ errors # <<>>
    /\ ~report.printed
    /\ report.errors = <<>>
    /\ PD \in outDirs
    /\ \E f \in SourceFiles : Parent(f) = Root /\ f \notin processed

---------------------------------------------------------------------------
(* The permission fault that makes create_dir_all fail for d. *)
NoMkdir(d) == [op |-> "mkdir", p |-> d]

(* C17, as claimed: when the destination directory of d cannot be created  *)
(* the run records a diagnostic for it and goes on: it ends with a report  *)
(* that holds the diagnostic, every file of the root handled.              *)
C17_MkdirFailureRecorded ==
    (pc = "idle" /\ hist # <<>> /\ LastRun.done /\ NoMkdir(PD) \in faults) =>
        /\ ~LastRun.fatal
        /\ report.printed
        /\ \E i \in 1..Len(errors) : errors[i].file = PD
        /\ \A f \in SourceFiles : Parent(f) = Root => f \in processed

(* C17, amended: when the destination directory of d cannot be created the *)
(* run stops there with a fatal error: no diagnostic is recorded for d,    *)
(* nothing under d is handled, the directory is not created, and the run   *)
(* ends without a report.                                                  *)
C17_MkdirFailureFatal ==
    NoMkdir(PD) \in faults =>
        /\ PC \notin emitted
        /\ \A i \in 1..Len(errors) : errors[i].file \notin {PD, PC}
        /\ (pc = "idle" /\ hist # <<>> /\ LastRun.done) =>
              /\ LastRun.fatal
              /\ ~report.printed
              /\ out[PC] = LastRun.out0[PC]
              /\ LastRun.out0 = EmptyOut => PD \notin outDirs

(* The directory could not be created: the run ended with a fatal error,   *)
(* with a file of the root written before and another never reached.       *)
C17_Witness ==
    /\ AfterFatalRun
    /\ NoMkdir(PD) \in faults
    /\ PD \notin outDirs
    /\ emitted # {}
    /\ \E f \in emitted : out[f] # LastRun.out0[f]
    /\ \E f \in SourceFiles : Parent(f) = Root /\ f \notin processed

---------------------------------------------------------------------------
(* The whole content of the line is one directive. *)
WholeLineDirective(l) == Len(l) = 1 /\ l[1].k = "tpl"

(* C18: a line is a directive only when its whole content is the           *)
(* directive: an emitted markup file none of whose lines is a whole-line   *)
(* directive is output as its lines are, and no diagnostic names it, also  *)
(* when a line holds the directive text among other text.  The code        *)
(* violates it: the pattern is searched for anywhere in the line (line     *)
(* 127), and the whole line is replaced by the fragment.                   *)
C18_MixedLineUnchanged ==
    AfterRun =>
        \A f \in emitted :
            (/\ IsHtml(f)
             /\ ~Unreadable(f)
             /\ \A i \in 1..Len(Lines(src[f])) :
                    ~WholeLineDirective(Lines(src[f])[i]))
            => /\ out[f] = Render(Lines(src[f]))
               /\ DiagsOf(f, {"missing", "process"}) = <<>>

---------------------------------------------------------------------------
(* The run entered last before the i-th message was received, 0 if none.   *)
RunBefore(i) == Cardinality({m \in 1..(i - 1) : handled[m].started})

(* C19: in watch mode nothing is generated before the first message is     *)
(* received; the reference time is the start of the watcher until a        *)
(* generation has ended, so a message received within the window after     *)
(* the start is dropped; and the end of a generation that failed with a    *)
(* fatal error is the reference time like any other, the loop being back   *)
(* at the receive.                                                         *)
C19_ReferenceTime ==
    /\ handled = <<>> =>
          /\ runs = 0 /\ hist = <<>>
          /\ pc = "idle"
          /\ out = EmptyOut
          /\ last_generation = 0
    /\ \A i \in 1..Len(handled) :
          /\ RunBefore(i) = 0 =>
                /\ handled[i].elapsed = handled[i].recv
                /\ handled[i].recv <= DebounceMs => ~handled[i].started
          /\ (RunBefore(i) > 0 /\ hist[RunBefore(i)].fatal) =>
                /\ hist[RunBefore(i)].done
                /\ handled[i].elapsed = handled[i].recv - hist[RunBefore(i)].endedAt
    /\ AfterFatalRun =>
          /\ last_generation = LastRun.endedAt
          /\ stack = <<>>

(* The first message came within the window after the start and was        *)
(* dropped with no run made; the second started a generation that failed   *)
(* with a fatal error, whose end is the reference time now, and the loop   *)
(* is at the receive again.                                                *)
C19_Witness ==
    /\ Len(handled) = 2
    /\ handled[1].recv > 0
    /\ handled[1].recv <= DebounceMs
    /\ ~handled[1].started
    /\ handled[2].started
    /\ AfterFatalRun
    /\ Len(hist) = 1
    /\ LastRun.endedAt > handled[2].recv
    /\ last_generation = LastRun.endedAt

---------------------------------------------------------------------------
(* The output tree, and the files emitted, of run k so far: as recorded    *)
(* when it ended, or as they are now while it is running.                  *)
OutOf(k)     == IF hist[k].done THEN hist[k].out ELSE out
EmittedOf(k) == IF hist[k].done THEN hist[k].emitted ELSE emitted

(* C20: a run never removes an entry of the output tree.  At every moment  *)
(* of every run, a file the output tree held when the run was entered is   *)
(* still there; a file whose output differs from what it was then is a     *)
(* file of the source tree that the run has emitted; every other output    *)
(* file is as it was, be its source deleted or consumed as a fragment in   *)
(* this run; and the directories created are still there.                  *)
C20_NeverRemoves ==
    /\ \A k \in 1..Len(hist) :
          \A p \in FilePaths :
              /\ hist[k].out0[p] # Absent => OutOf(k)[p] # Absent
              /\ OutOf(k)[p] # hist[k].out0[p] =>
                    (p \in EmittedOf(k) /\ hist[k].src[p] # Absent)
              /\ p \notin EmittedOf(k) => OutOf(k)[p] = hist[k].out0[p]
    /\ pc = "walk" => Root \in outDirs
    /\ AfterRun => {Root, PD} \subseteq outDirs

(* b.html was emitted by the first run and then deleted from the source;   *)
(* after the second run, on the output tree the first left, its output is  *)
(* still there.                                                            *)
C20_Witness ==
    /\ AfterRun
    /\ Len(hist) = 2
    /\ PB \in hist[1].emitted
    /\ hist[1].out[PB] # Absent
    /\ src[PB] = Absent
    /\ LastRun.out0 = hist[1].out
    /\ PA \in emitted
    /\ out[PB] = hist[1].out[PB]

=============================================================================
